---- MODULE Spec2Model ----
(***************************************************************************)
(* A model of auditor/run_audit.py: the audit pipeline main() and its four *)
(* components expand_sources, detect_proxy_and_impl, grep_patterns and     *)
(* scan_logs.                                                              *)
(*                                                                         *)
(* Text (a source payload, a file's content, a contract name) is a         *)
(* sequence of lexemes: " " is one whitespace character, "\n" a line       *)
(* break, "(" ")" "{" "}" "," punctuation, and every other lexeme is a run *)
(* of word characters (or, for "S" "E" "K" "n", one well-formed JSON       *)
(* member or scalar).  Bytes are integers; an address is 20 of them, a     *)
(* storage word is any number of them.  A Python None is the empty tuple   *)
(* and a present value v the one-element tuple <<v>>.                      *)
(***************************************************************************)
EXTENDS Integers, Sequences, FiniteSets, TLC

VARIABLES
    pc,              \* position of the run
    raised,          \* the stage whose exception ended the run, or "none"
    calls,           \* how often each external collaborator was called
    api_key,         \* os.environ.get("ETHERSCAN_API_KEY")
    addr_valid,      \* whether --address is a well-formed address
    args_from,       \* args.from_block
    args_to,         \* args.to_block
    skip_slither,    \* args.skip_slither
    latest,          \* w3.eth.block_number
    slot,            \* what get_storage_at answered
    impl,            \* detect_proxy_and_impl's result
    target,          \* the address the source is fetched for
    item,            \* the fetched source record
    sources,         \* expand_sources' units, <<path, content>>
    concat,          \* the text handed to grep_patterns
    findings,        \* grep_patterns' result
    sl,              \* run_slither_if_available's result
    from_block,      \* scan_logs' from_block
    to_block,        \* scan_logs' to_block
    step,            \* scan_logs' step
    start,           \* scan_logs' loop variable: the next window's start
    queried,         \* the get_logs calls issued so far, <<start, end>>
    replies,         \* what the provider answered to each of them
    all_transfers,
    all_blacklisted,
    all_upgraded,
    logs,            \* scan_logs' return value
    report           \* what write_report was given

mainVars == <<api_key, addr_valid, args_from, args_to, skip_slither, latest,
              slot, impl, target, sl, report>>
srcVars == <<item, sources>>
grepVars == <<concat, findings>>
scanVars == <<from_block, to_block, step, start, queried, replies,
              all_transfers, all_blacklisted, all_upgraded, logs>>
vars == <<pc, raised, calls, mainVars, srcVars, grepVars, scanVars>>

\* ------------------------------------------------------------------ bounds

MaxBlock == 4
MaxStep == 3
MaxLogs == 2
MaxBraces == 3
MaxLines == 5

\* ------------------------------------------------------- program constants

\* Line 220: step=50000
STEP == 50000
\* Line 198: latest - 200000
LOOKBACK == 200000

\* --------------------------------------------------------------- utilities

None == <<>>
Some(v) == <<v>>

Min(a, b) == IF a <= b THEN a ELSE b
Max(a, b) == IF a >= b THEN a ELSE b

SeqsUpTo(S, n) == UNION {[1..k -> S] : k \in 0..n}

RECURSIVE Flatten(_)
Flatten(ss) == IF ss = <<>> THEN <<>> ELSE Head(ss) \o Flatten(Tail(ss))

NoCalls == [k \in {"height", "slot", "fetch", "grep", "slither", "report"} |-> 0]
Called(k) == [calls EXCEPT ![k] = @ + 1]

\* --------------------------------------------------------------- scan_logs

TRANSFER_TOPIC == "Transfer(address,address,uint256)"
BLACKLISTED_TOPIC == "Blacklisted(address)"
UPGR_TOPIC == "Upgraded(address)"
OWNERSHIP_TX_TOPIC == "OwnershipTransferred(address,address)"

\* The topic lists a log can carry: the three recognised events, an event
\* that is not recognised (with a recognised hash in a later position), and
\* an anonymous event, which has no topic at all.
TopicLists ==
    { <<TRANSFER_TOPIC, "a1", "a2">>,
      <<BLACKLISTED_TOPIC, "a1">>,
      <<UPGR_TOPIC, "a1">>,
      <<OWNERSHIP_TX_TOPIC, TRANSFER_TOPIC>>,
      <<>> }

\* The logs of one answer: the k-th log of the window starting at s.
MkLogs(s, tls) ==
    [k \in 1..Len(tls) |-> [blockNumber |-> s, transactionHash |-> <<s, k>>,
                            topics |-> tls[k]]]

Entry(l) == [block |-> l.blockNumber, tx |-> l.transactionHash, topics |-> l.topics]

\* A variant of Classify that looks for the signature in any topic.
ClassifyAnyTopic(acc, l) ==
    LET has(t) == \E i \in 1..Len(l.topics) : l.topics[i] = t IN
    IF has(TRANSFER_TOPIC) THEN [acc EXCEPT !.t = Append(@, Entry(l))]
    ELSE IF has(BLACKLISTED_TOPIC) THEN [acc EXCEPT !.b = Append(@, Entry(l))]
    ELSE IF has(UPGR_TOPIC) THEN [acc EXCEPT !.u = Append(@, Entry(l))]
    ELSE acc

\* Lines 143-149: where the log l goes, by its first topic t0 alone.
Classify(acc, l) ==
    LET t0 == l.topics[1] IN
    IF t0 = TRANSFER_TOPIC THEN [acc EXCEPT !.t = Append(@, Entry(l))]
    ELSE IF t0 = BLACKLISTED_TOPIC THEN [acc EXCEPT !.b = Append(@, Entry(l))]
    ELSE IF t0 = UPGR_TOPIC THEN [acc EXCEPT !.u = Append(@, Entry(l))]
    ELSE acc

\* The body of `for l in logs`: acc holds the three lists and whether
\* l["topics"][0] raised IndexError (a list of no topics has no first one).
RECURSIVE ProcessLogs(_, _)
ProcessLogs(ls, acc) ==
    IF ls = <<>> \/ acc.raised THEN acc
    ELSE IF Head(ls).topics = <<>> THEN [acc EXCEPT !.raised = TRUE]
    ELSE ProcessLogs(Tail(ls), Classify(acc, Head(ls)))

\* A variant of WindowEnd that forgets to clamp the last window to to_block.
WindowEndUnclamped == start + step - 1

\* Line 137: end = min(to_block, start + step - 1)
WindowEnd == Min(to_block, start + step - 1)

Failed == [ok |-> FALSE, logs |-> <<>>]
Answer(ls) == [ok |-> TRUE, logs |-> ls]

\* A variant of OnQueryFailure that lets the exception out of scan_logs.
OnQueryFailureRaise ==
    /\ pc' = "aborted"
    /\ raised' = "scan_logs"
    /\ UNCHANGED <<start, all_transfers, all_blacklisted, all_upgraded>>

\* Lines 140-141, `except Exception: continue`: the window is dropped and
\* the loop goes on with the next start.
OnQueryFailure ==
    /\ start' = start + step
    /\ UNCHANGED <<pc, raised, all_transfers, all_blacklisted, all_upgraded>>

\* One pass of `for start in range(from_block, to_block + 1, step)`: one
\* get_logs call, whose answer r is an exception or a list of logs.
QueryWindow(Replies) ==
    /\ pc = "logs"
    /\ start <= to_block
    /\ \E r \in Replies :
        LET acc == ProcessLogs(r.logs, [t |-> all_transfers, b |-> all_blacklisted,
                                        u |-> all_upgraded, raised |-> FALSE])
        IN /\ queried' = Append(queried, <<start, WindowEnd>>)
           /\ replies' = Append(replies, r)
           /\ IF ~r.ok
              THEN OnQueryFailure
              ELSE IF acc.raised
              THEN /\ pc' = "aborted"
                   /\ raised' = "scan_logs"
                   /\ UNCHANGED <<start, all_transfers, all_blacklisted, all_upgraded>>
              ELSE /\ start' = start + step
                   /\ all_transfers' = acc.t
                   /\ all_blacklisted' = acc.b
                   /\ all_upgraded' = acc.u
                   /\ UNCHANGED <<pc, raised>>
    /\ UNCHANGED <<calls, mainVars, srcVars, grepVars, from_block, to_block, step, logs>>

\* The loop is exhausted: return the mapping.
ScanReturn(cont) ==
    /\ pc = "logs"
    /\ start > to_block
    /\ logs' = [transfer |-> all_transfers, blacklisted |-> all_blacklisted,
                upgraded |-> all_upgraded]
    /\ pc' = cont
    /\ UNCHANGED <<raised, calls, mainVars, srcVars, grepVars, from_block, to_block,
                   step, start, queried, replies, all_transfers, all_blacklisted,
                   all_upgraded>>

\* ---- scan_logs on its own: any range, any step, any provider

LogsSeen ==
    Len(Flatten([k \in 1..Len(replies) |-> replies[k].logs]))

ScanReplies ==
    {Failed} \cup {Answer(MkLogs(start, tls)) : tls \in SeqsUpTo(TopicLists, MaxLogs - LogsSeen)}

ScanRanges ==
    ((0..MaxBlock) \X (0..MaxBlock) \X (1..MaxStep)) \cup {<<0, 149999, 50000>>}

IdleMain ==
    /\ api_key = None /\ addr_valid = TRUE /\ args_from = None /\ args_to = None
    /\ skip_slither = TRUE /\ latest = None /\ slot = None /\ impl = None
    /\ target = None /\ sl = None /\ report = None
IdleSrc == item = None /\ sources = <<>>
IdleGrep == concat = <<>> /\ findings = <<>>

InitScan ==
    /\ pc = "logs" /\ raised = "none" /\ calls = NoCalls
    /\ IdleMain /\ IdleSrc /\ IdleGrep
    /\ \E r \in ScanRanges :
          from_block = r[1] /\ to_block = r[2] /\ step = r[3] /\ start = r[1]
    /\ queried = <<>> /\ replies = <<>>
    /\ all_transfers = <<>> /\ all_blacklisted = <<>> /\ all_upgraded = <<>>
    /\ logs = None

ScanQuery == QueryWindow(ScanReplies)
ScanDone == ScanReturn("returned")

NextScan == ScanQuery \/ ScanDone

SpecScan == InitScan /\ [][NextScan]_vars

\* ---------------------------------------------------------- expand_sources

IsSpace(c) == c \in {" ", "\n"}

\* str.strip(): the text without its leading and trailing whitespace.
RECURSIVE LStrip(_)
LStrip(t) == IF t # <<>> /\ IsSpace(Head(t)) THEN LStrip(Tail(t)) ELSE t

RECURSIVE RStrip(_)
RStrip(t) ==
    IF t # <<>> /\ IsSpace(t[Len(t)]) THEN RStrip(SubSeq(t, 1, Len(t) - 1)) ELSE t

Strip(t) == RStrip(LStrip(t))

StartsWith(t, p) == Len(t) >= Len(p) /\ SubSeq(t, 1, Len(p)) = p
EndsWith(t, p) == Len(t) >= Len(p) /\ SubSeq(t, Len(t) - Len(p) + 1, Len(t)) = p

\* The texts of the two files of the multi-file project "S".
ContentA == <<"function", " ", "initialize", "(", ")">>
ContentB == <<"x", "\n", "modifier", " ", "onlyOwner">>

\* The JSON members a payload can hold: "S" is `"sources": {"A.sol":
\* {"content": ...}, "B.sol": {"content": ...}}`, "E" is `"sources":
\* {"A.sol": {}}` (an entry without a content field), "K" is a member with
\* another key, such as `"language": "Solidity"`.
Members == {"S", "E", "K"}

SourcesOf(m) ==
    IF m = "S" THEN << <<"A.sol", Some(ContentA)>>, <<"B.sol", Some(ContentB)>> >>
    ELSE << <<"A.sol", None>> >>

JsonError == [ok |-> FALSE, dict |-> FALSE, has_sources |-> FALSE, sources |-> <<>>]
JsonScalar == [ok |-> TRUE, dict |-> FALSE, has_sources |-> FALSE, sources |-> <<>>]
JsonEmptyObject == [ok |-> TRUE, dict |-> TRUE, has_sources |-> FALSE, sources |-> <<>>]

\* The members of a JSON object, from lexeme i of t on, t[1] being its "{".
\* st is "first" after "{", "member" after ",", "after" after a member; obj
\* is the object read so far (a repeated key keeps its last value).  The
\* closing "}" must be the last lexeme: json.loads rejects extra data.
RECURSIVE ParseMembers(_, _, _, _)
ParseMembers(t, i, st, obj) ==
    IF i > Len(t) THEN JsonError
    ELSE IF IsSpace(t[i]) THEN ParseMembers(t, i + 1, st, obj)
    ELSE IF t[i] = "}" THEN
        IF st \in {"first", "after"} /\ i = Len(t) THEN obj ELSE JsonError
    ELSE IF t[i] = "," THEN
        IF st = "after" THEN ParseMembers(t, i + 1, "member", obj) ELSE JsonError
    ELSE IF t[i] \in Members THEN
        IF st \in {"first", "member"}
        THEN ParseMembers(t, i + 1, "after",
                 IF t[i] = "K" THEN obj
                 ELSE [obj EXCEPT !.has_sources = TRUE, !.sources = SourcesOf(t[i])])
        ELSE JsonError
    ELSE JsonError

\* json.loads(s): whitespace around the value is skipped; the value is an
\* object or the scalar "n"; anything else raises.
JsonLoads(s) ==
    LET t == Strip(s) IN
    IF t = <<"n">> THEN JsonScalar
    ELSE IF t # <<>> /\ t[1] = "{" THEN ParseMembers(t, 2, "first", JsonEmptyObject)
    ELSE JsonError

\* A variant of TryJson that keeps unwrapping braces as long as it can.
RECURSIVE TryJsonRecursive(_)
TryJsonRecursive(s) ==
    LET t == Strip(s) IN
    IF JsonLoads(s).ok THEN JsonLoads(s)
    ELSE IF StartsWith(t, <<"{", "{">>) /\ EndsWith(t, <<"}", "}">>)
    THEN TryJsonRecursive(SubSeq(t, 2, Len(t) - 1))
    ELSE JsonError

\* Lines 56-64, try_json: the payload itself, then, when its trimmed text
\* starts with "{{" and ends with "}}", that text without its first and last
\* character; the first candidate that parses wins, and None otherwise.
TryJson(s) ==
    LET t == Strip(s)
        cand == IF StartsWith(t, <<"{", "{">>) /\ EndsWith(t, <<"}", "}">>)
                THEN SubSeq(t, 2, Len(t) - 1) ELSE <<>>
    IN IF s # <<>> /\ JsonLoads(s).ok THEN JsonLoads(s)
       ELSE IF cand # <<>> /\ JsonLoads(cand).ok THEN JsonLoads(cand)
       ELSE JsonError

\* Line 75: (item.get("ContractName") or "Contract").strip() or "Contract"
UnitName(it) ==
    LET n == IF it.ContractName = None \/ it.ContractName[1] = <<>>
             THEN <<"Contract">> ELSE it.ContractName[1]
    IN IF Strip(n) = <<>> THEN <<"Contract">> ELSE Strip(n)

\* Lines 49-79, expand_sources: the units written, <<path, content>>, in
\* order.
ExpandSources(it) ==
    LET src == it.SourceCode
        j == TryJson(src)
    IN IF src = <<>> THEN <<>>
       ELSE IF j.ok /\ j.dict /\ j.has_sources
       THEN [k \in 1..Len(j.sources) |->
                <<j.sources[k][1],
                  IF j.sources[k][2] = None THEN <<>> ELSE j.sources[k][2][1]>>]
       ELSE << <<UnitName(it) \o <<".sol">>, src>> >>

\* ---- expand_sources on its own: any payload, any name hint

\* What a payload holds between its braces.
Bodies ==
    { <<>>, <<"S">>, <<"E">>, <<"K">>, <<"K", ",", " ", "S">>, <<"S", ",", "E">>,
      <<"S", ",">>, <<" ", "S", "\n">>, <<"x">>, <<"n">>,
      <<"contract", " ", "C", " ", "{", "}">> }

Braces(c, n) == [k \in 1..n |-> c]

Payloads ==
    { lead \o Braces("{", open) \o body \o Braces("}", close) \o trail :
        lead \in {<<>>, <<" ">>}, trail \in {<<>>, <<"\n">>},
        open \in 0..MaxBraces, close \in 0..MaxBraces, body \in Bodies }

NameHints == {None, Some(<<>>), Some(<<" ">>), Some(<<"C">>), Some(<<" ", "C", " ">>)}

\* A record of the explorer's result list.
Item(src, name) == [record |-> TRUE, SourceCode |-> src, ContractName |-> name]

\* The first character of the text the explorer answers instead of a list
\* when it rejects the request: data["result"][0] of a string.
ErrorText == [record |-> FALSE, SourceCode |-> <<>>, ContractName |-> None]

IdleScan ==
    /\ from_block = 0 /\ to_block = 0 /\ step = STEP /\ start = 0
    /\ queried = <<>> /\ replies = <<>>
    /\ all_transfers = <<>> /\ all_blacklisted = <<>> /\ all_upgraded = <<>>
    /\ logs = None

InitExpand ==
    /\ pc = "expand" /\ raised = "none" /\ calls = NoCalls
    /\ IdleMain /\ IdleGrep /\ IdleScan
    /\ \E src \in Payloads, name \in NameHints : item = Some(Item(src, name))
    /\ sources = <<>>

\* The call of expand_sources; item.get of line 51 raises AttributeError
\* when item is no record.
Expand(cont) ==
    /\ pc = "expand"
    /\ IF item[1].record
       THEN sources' = ExpandSources(item[1]) /\ pc' = cont /\ UNCHANGED raised
       ELSE pc' = "aborted" /\ raised' = "expand_sources" /\ UNCHANGED sources
    /\ UNCHANGED <<calls, mainVars, item, grepVars, scanVars>>

ExpandOnly == Expand("expanded")

NextExpand == ExpandOnly

SpecExpand == InitExpand /\ [][NextExpand]_vars

\* ----------------------------------------------------------- grep_patterns

ROLE_SETTERS ==
    <<"updateOracle", "updateBlacklister", "updatePauser", "updateMasterMinter",
      "updateRescuer">>

\* str.splitlines(): the lines of a text; a line break at the very end opens
\* no further line.
RECURSIVE SplitFrom(_, _, _)
SplitFrom(t, cur, acc) ==
    IF t = <<>> THEN (IF cur = <<>> THEN acc ELSE Append(acc, cur))
    ELSE IF Head(t) = "\n" THEN SplitFrom(Tail(t), <<>>, Append(acc, cur))
    ELSE SplitFrom(Tail(t), Append(cur, Head(t)), acc)

SplitLines(t) == SplitFrom(t, <<>>, <<>>)

\* sep.join(parts)
RECURSIVE Join(_, _)
Join(sep, parts) ==
    IF parts = <<>> THEN <<>>
    ELSE IF Len(parts) = 1 THEN parts[1]
    ELSE parts[1] \o sep \o Join(sep, Tail(parts))

\* The lexemes that are not runs of word characters (a JSON member starts
\* and ends with a quote or a brace).
IsWord(c) == c \notin {" ", "\n", "(", ")", "{", "}", ",", "S", "E", "K"}

\* \b before lexeme i, and after it.
BoundaryBefore(line, i) == i = 1 \/ ~IsWord(line[i - 1])
BoundaryAfter(line, i) == i = Len(line) \/ ~IsWord(line[i + 1])

\* `w in line` for a word w none of the other lexemes contains.
Contains(line, w) == \E i \in 1..Len(line) : line[i] = w

\* re.search(r"\bfunction\s+initialize\b", line)
InitDeclared(line) ==
    \E i \in 1..Len(line) : \E j \in (i + 2)..Len(line) :
        /\ line[i] = "function" /\ BoundaryBefore(line, i)
        /\ \A k \in (i + 1)..(j - 1) : line[k] = " "
        /\ line[j] = "initialize" /\ BoundaryAfter(line, j)

\* "initializeV2(" in line
InitV2Called(line) ==
    \E i \in 1..(Len(line) - 1) : line[i] = "initializeV2" /\ line[i + 1] = "("

\* Line 102: the three init patterns.
IsInit(line) ==
    InitDeclared(line) \/ Contains(line, "initializeV2_1") \/ InitV2Called(line)

\* re.search(rf"\b{name}\s*\(", line)
CallShaped(line, name) ==
    \E i \in 1..Len(line) : \E j \in (i + 1)..Len(line) :
        /\ line[i] = name /\ BoundaryBefore(line, i)
        /\ \A k \in (i + 1)..(j - 1) : line[k] = " "
        /\ line[j] = "("

\* "onlyOwner" in "\n".join(ls)
Guarded(ls) == \E k \in 1..Len(ls) : Contains(ls[k], "onlyOwner")

\* A variant of InitContext that looks one line less far ahead.
InitContextShort(lines, i) == SubSeq(lines, i, Min(i + 2, Len(lines)))

\* Line 107: context = lines[i - 1:i + 3], line i and the three after it.
InitContext(lines, i) == SubSeq(lines, i, Min(i + 3, Len(lines)))

\* A variant of SetterContext that looks one line further ahead.
SetterContextLong(lines, i) == SubSeq(lines, i, Min(i + 4, Len(lines)))

\* Line 115: context = lines[i - 1:i + 3]
SetterContext(lines, i) == SubSeq(lines, i, Min(i + 3, Len(lines)))

\* f"L{i}: {line.strip()}"
Finding(i, line) == <<i, Strip(line)>>

NoFindings ==
    [init_functions |-> <<>>, unprotected_inits |-> <<>>,
     unprotected_role_setters |-> <<>>, internal_transfer_calls |-> <<>>]

\* Lines 112-117: the setters of line i, in the order of ROLE_SETTERS.
RECURSIVE SetterFindings(_, _, _)
SetterFindings(lines, i, k) ==
    IF k > Len(ROLE_SETTERS) THEN <<>>
    ELSE (IF CallShaped(lines[i], ROLE_SETTERS[k]) /\ ~Guarded(SetterContext(lines, i))
          THEN <<Finding(i, lines[i])>> ELSE <<>>)
         \o SetterFindings(lines, i, k + 1)

\* Lines 101-117: the loop over the lines, from line i on.
RECURSIVE GrepFrom(_, _, _)
GrepFrom(lines, i, f) ==
    IF i > Len(lines) THEN f
    ELSE LET line == lines[i]
             f1 == IF IsInit(line)
                   THEN [f EXCEPT !.init_functions = Append(@, Finding(i, line))]
                   ELSE f
             f2 == IF IsInit(line) /\ ~Contains(line, "onlyOwner")
                      /\ ~Guarded(InitContext(lines, i))
                   THEN [f1 EXCEPT !.unprotected_inits = Append(@, Finding(i, line))]
                   ELSE f1
             f3 == IF CallShaped(line, "_transfer")
                   THEN [f2 EXCEPT !.internal_transfer_calls = Append(@, Finding(i, line))]
                   ELSE f2
             f4 == [f3 EXCEPT !.unprotected_role_setters = @ \o SetterFindings(lines, i, 1)]
         IN GrepFrom(lines, i + 1, f4)

\* Lines 93-118, grep_patterns.
GrepPatterns(text) == GrepFrom(SplitLines(text), 1, NoFindings)

\* ---- grep_patterns on its own: any text of up to MaxLines lines

\* The lines a text is made of, for a setter name s: an init declaration, a
\* line that mentions the guard (and holds a near miss, the setter name
\* inside a longer word), an internal transfer call, a reinitializer call,
\* and a setter call on a line that also names a reinitializer.
LineMenu(s) ==
    { <<"function", " ", "initialize", "(">>,
      <<" ", "onlyOwner", " ", "x", s, "(">>,
      <<"_transfer", " ", "(">>,
      <<"initializeV2", "(">>,
      <<" ", s, " ", "(", "initializeV2_1">> }

SetterNames == {ROLE_SETTERS[k] : k \in 1..Len(ROLE_SETTERS)}

InitGrep ==
    /\ pc = "grep" /\ raised = "none" /\ calls = NoCalls
    /\ IdleMain /\ IdleSrc /\ IdleScan
    /\ \E s \in SetterNames : \E ls \in SeqsUpTo(LineMenu(s), MaxLines) :
          concat = Join(<<"\n">>, ls)
    /\ findings = <<>>

GrepOnly ==
    /\ pc = "grep"
    /\ findings' = GrepPatterns(concat)
    /\ pc' = "scanned"
    /\ UNCHANGED <<raised, calls, mainVars, srcVars, concat, scanVars>>

NextGrep == GrepOnly

SpecGrep == InitGrep /\ [][NextGrep]_vars

\* -------------------------------------------------- detect_proxy_and_impl

Bytes(n, v) == [k \in 1..n |-> v]

\* --address, an implementation a proxy points to, and the zero address.
\* Web3.to_checksum_address changes the case of an address's hex digits and
\* none of its bytes, so an address is its bytes here.
ADDRESS == Bytes(20, 170)
IMPLEMENTATION == Bytes(20, 187)
ZERO_ADDRESS == Bytes(20, 0)

\* What get_storage_at can answer: an exception, or bytes: none, too few,
\* the zero word (what the slot of a contract that is no proxy holds), a
\* word with an address in its low-order bytes (below zeros or below other
\* bytes), too many.
NoAnswer == [ok |-> FALSE, raw |-> <<>>]

SlotReplies ==
    {NoAnswer} \cup
    {[ok |-> TRUE, raw |-> w] :
        w \in { <<>>, Bytes(31, 0), Bytes(32, 0), Bytes(12, 0) \o IMPLEMENTATION,
                Bytes(12, 255) \o IMPLEMENTATION, Bytes(13, 0) \o IMPLEMENTATION }}

\* raw[-20:]
LowOrder20(raw) == SubSeq(raw, Max(1, Len(raw) - 19), Len(raw))

\* Lines 82-90, detect_proxy_and_impl: r is what get_storage_at answered.
DetectProxyAndImpl(r) ==
    IF r.ok /\ r.raw # <<>> /\ Len(r.raw) = 32
    THEN Some(LowOrder20(r.raw))
    ELSE None

\* -------------------------------------------------------------------- main

\* Python's `a or b` for an optional integer a: None and 0 are falsy.
OrElse(a, b) == IF a # None /\ a[1] # 0 THEN a[1] ELSE b

\* A variant of KeyMissing that lets a run without credential go on.
KeyNeverMissing == FALSE

\* Line 190: `not api_key`: the variable is unset or empty.
KeyMissing == api_key = None \/ api_key[1] = <<>>

\* Lines 189-196: the credential check, the provider object (which opens no
\* connection) and the checksum of --address.
MainStart ==
    /\ pc = "main"
    /\ IF KeyMissing THEN pc' = "exited" /\ raised' = "SystemExit"
       ELSE IF ~addr_valid THEN pc' = "aborted" /\ raised' = "address"
       ELSE pc' = "height" /\ UNCHANGED raised
    /\ UNCHANGED <<calls, mainVars, srcVars, grepVars, scanVars>>

Heights == {149999, 250000}

\* Lines 197-199: the block height and the range of the log scan.
ReadHeight ==
    /\ pc = "height"
    /\ calls' = Called("height")
    /\ \/ /\ pc' = "aborted" /\ raised' = "block_number"
          /\ UNCHANGED <<latest, from_block, to_block>>
       \/ \E h \in Heights :
             /\ latest' = Some(h)
             /\ from_block' = OrElse(args_from, Max(0, h - LOOKBACK))
             /\ to_block' = OrElse(args_to, h)
             /\ pc' = "proxy" /\ UNCHANGED raised
    /\ UNCHANGED <<api_key, addr_valid, args_from, args_to, skip_slither, slot, impl,
                   target, sl, report, srcVars, grepVars, step, start, queried, replies,
                   all_transfers, all_blacklisted, all_upgraded, logs>>

\* Line 202: impl = detect_proxy_and_impl(w3, address)
DetectProxy ==
    /\ pc = "proxy"
    /\ calls' = Called("slot")
    /\ \E r \in SlotReplies :
          /\ slot' = Some(r)
          /\ impl' = DetectProxyAndImpl(r)
    /\ pc' = "fetch"
    /\ UNCHANGED <<raised, api_key, addr_valid, args_from, args_to, skip_slither, latest,
                   target, sl, report, srcVars, grepVars, scanVars>>

\* What the explorer can answer: a transport error, no result, an error
\* text, or a record: of a contract without verified source (an empty
\* SourceCode), of a single file, of a multi-file project in doubled braces.
FetchedItems ==
    { ErrorText,
      Item(<<>>, Some(<<"C">>)),
      Item(<<"function", " ", "initialize", "(", ")">>, Some(<<"C">>)),
      Item(<<"{", "{", "S", "}", "}">>, None) }

\* A variant of OnFetchFailure that goes on with an empty record.
OnFetchFailureDegrade ==
    /\ pc' = "expand" /\ raised' = "fetch"
    /\ item' = Some(Item(<<>>, None))

\* Lines 41-45: raise_for_status(), r.json() or RuntimeError ends the run.
OnFetchFailure ==
    /\ pc' = "aborted" /\ raised' = "fetch"
    /\ UNCHANGED item

\* Lines 205-206: target = impl or address, and the source fetch.
FetchSource ==
    /\ pc = "fetch"
    /\ target' = Some(IF impl # None THEN impl[1] ELSE ADDRESS)
    /\ calls' = Called("fetch")
    /\ \/ OnFetchFailure
       \/ \E it \in FetchedItems :
             item' = Some(it) /\ pc' = "expand" /\ UNCHANGED raised
    /\ UNCHANGED <<api_key, addr_valid, args_from, args_to, skip_slither, latest, slot,
                   impl, sl, report, sources, grepVars, scanVars>>

\* Lines 207-208: sources = expand_sources(item, out_root)
MainExpand == Expand("grep")

\* Lines 211-212: the units' texts joined by an empty line, and the scan.
MainGrep ==
    /\ pc = "grep"
    /\ calls' = Called("grep")
    /\ concat' = Join(<<"\n", "\n">>, [k \in 1..Len(sources) |-> sources[k][2]])
    /\ findings' = GrepPatterns(concat')
    /\ pc' = "slither"
    /\ UNCHANGED <<raised, mainVars, srcVars, scanVars>>

\* Lines 215-217 and 121-128: slither, unless skipped; its output, or None
\* when it cannot be run.
RunSlither ==
    /\ pc = "slither"
    /\ IF skip_slither
       THEN sl' = None /\ UNCHANGED calls
       ELSE calls' = Called("slither") /\ sl' \in {None, Some("output")}
    /\ pc' = "scan_logs"
    /\ UNCHANGED <<raised, api_key, addr_valid, args_from, args_to, skip_slither, latest,
                   slot, impl, target, report, srcVars, grepVars, scanVars>>

\* Line 220 and lines 132-135: the call of scan_logs with step=50000.
ScanLogsCall ==
    /\ pc = "scan_logs"
    /\ step' = STEP
    /\ start' = from_block
    /\ all_transfers' = <<>> /\ all_blacklisted' = <<>> /\ all_upgraded' = <<>>
    /\ pc' = "logs"
    /\ UNCHANGED <<raised, calls, mainVars, srcVars, grepVars, from_block, to_block,
                   queried, replies, logs>>

\* What the provider answers to a window of the run: an exception, no log, a
\* Transfer, or a log of an anonymous event.
MainReplies ==
    { Failed, Answer(<<>>),
      Answer(MkLogs(start, << <<TRANSFER_TOPIC, "a1", "a2">> >>)),
      Answer(MkLogs(start, << <<>> >>)) }

MainQuery == QueryWindow(MainReplies)
MainScanDone == ScanReturn("report")

\* Lines 222-224 and 153-177: the report; the Implementation line is written
\* for a truthy implementation only.
WriteReport ==
    /\ pc = "report"
    /\ calls' = Called("report")
    /\ report' = Some([address |-> ADDRESS, implementation |-> impl,
                       grep |-> findings, slither |-> sl, logs |-> logs])
    /\ pc' = "done"
    /\ UNCHANGED <<raised, api_key, addr_valid, args_from, args_to, skip_slither, latest,
                   slot, impl, target, sl, srcVars, grepVars, scanVars>>

Init ==
    /\ pc = "main" /\ raised = "none" /\ calls = NoCalls
    /\ api_key \in {None, Some(<<>>), Some(<<"KEY">>)}
    /\ addr_valid \in BOOLEAN
    /\ args_from \in {None, Some(0), Some(100000)}
    /\ args_to \in {None, Some(0), Some(149999)}
    /\ skip_slither \in BOOLEAN
    /\ latest = None /\ slot = None /\ impl = None /\ target = None
    /\ sl = None /\ report = None
    /\ IdleSrc /\ IdleGrep /\ IdleScan

Next ==
    \/ MainStart
    \/ ReadHeight
    \/ DetectProxy
    \/ FetchSource
    \/ MainExpand
    \/ MainGrep
    \/ RunSlither
    \/ ScanLogsCall
    \/ MainQuery
    \/ MainScanDone
    \/ WriteReport

Spec == Init /\ [][Next]_vars

\* ------------------------------------------------- properties of scan_logs

Span(w) == w[2] - w[1] + 1

RECURSIVE SumSpans(_)
SumSpans(ws) == IF ws = <<>> THEN 0 ELSE Span(Head(ws)) + SumSpans(Tail(ws))

\* The windows queried so far are consecutive, disjoint, ascending, non-empty,
\* at most step blocks each, inside [from_block, to_block], the first at
\* from_block.
WindowsWellFormed ==
    /\ \A k \in 1..Len(queried) :
          /\ queried[k][1] <= queried[k][2]
          /\ Span(queried[k]) <= step
          /\ from_block <= queried[k][1]
          /\ queried[k][2] <= to_block
    /\ \A j, k \in 1..Len(queried) : j < k => queried[j][2] < queried[k][1]
    /\ \A k \in 1..(Len(queried) - 1) : queried[k + 1][1] = queried[k][2] + 1
    /\ queried # <<>> => queried[1][1] = from_block

\* C1: scan_logs issues one query per window, in ascending order; the windows
\* are consecutive, pairwise disjoint, at most step blocks each, start at
\* from_block, end at to_block and cover [from_block, to_block] exactly once
\* (disjoint windows inside the range whose sizes add up to the size of the
\* range); 0..149999 by 50000 gives the three windows of the example; an
\* empty range gives no query.
C1_WindowsPartitionRange ==
    /\ pc \in {"logs", "returned", "aborted"} => WindowsWellFormed
    /\ pc = "returned" =>
          /\ from_block > to_block => queried = <<>>
          /\ from_block <= to_block =>
                /\ queried # <<>>
                /\ queried[Len(queried)][2] = to_block
                /\ SumSpans(queried) = to_block - from_block + 1
          /\ (from_block = 0 /\ to_block = 149999 /\ step = 50000) =>
                queried = << <<0, 49999>>, <<50000, 99999>>, <<100000, 149999>> >>

\* A scan that returned after a full window and a shorter last one.
C1_Witness ==
    /\ pc = "returned"
    /\ Len(queried) = 2
    /\ Span(queried[1]) = step
    /\ Span(queried[2]) < step

\* What the answers received so far hold, in the order received.
Received == Flatten([k \in 1..Len(replies) |-> replies[k].logs])

FirstTopicIs(l, t) == l.topics # <<>> /\ l.topics[1] = t

RECURSIVE EntriesOf(_, _)
EntriesOf(ls, t) ==
    IF ls = <<>> THEN <<>>
    ELSE IF FirstTopicIs(Head(ls), t) THEN <<Entry(Head(ls))>> \o EntriesOf(Tail(ls), t)
    ELSE EntriesOf(Tail(ls), t)

HasAnonymous(ls) == \E i \in 1..Len(ls) : ls[i].topics = <<>>

\* The number of windows of the range.
NumWindows ==
    IF from_block > to_block THEN 0 ELSE (to_block - from_block) \div step + 1

\* C2: a failed window query is dropped silently: it raises nothing (the
\* only exception scan_logs lets out comes from an answer that holds a log
\* without topics, never from a failed query), the loop goes on with the
\* next window (so a scan that returns has queried every window of the
\* range), and the lists hold, per kind, the recognised events of the
\* answered windows in window order and provider order.
C2_FailedWindowDropped ==
    /\ Len(replies) = Len(queried)
    /\ \A k \in 1..Len(replies) :
          ~replies[k].ok =>
             IF k < Len(queried)
             THEN queried[k + 1][1] = queried[k][1] + step
             ELSE pc # "aborted" /\ raised = "none" /\ start = queried[k][1] + step
    /\ raised = "scan_logs" =>
          /\ replies # <<>>
          /\ replies[Len(replies)].ok
          /\ HasAnonymous(replies[Len(replies)].logs)
    /\ pc \in {"logs", "returned"} =>
          /\ all_transfers = EntriesOf(Received, TRANSFER_TOPIC)
          /\ all_blacklisted = EntriesOf(Received, BLACKLISTED_TOPIC)
          /\ all_upgraded = EntriesOf(Received, UPGR_TOPIC)
    /\ pc = "returned" =>
          /\ Len(queried) = NumWindows
          /\ logs.transfer = EntriesOf(Received, TRANSFER_TOPIC)
          /\ logs.blacklisted = EntriesOf(Received, BLACKLISTED_TOPIC)
          /\ logs.upgraded = EntriesOf(Received, UPGR_TOPIC)

\* A scan of three windows returned: the middle query failed, the first and
\* the third each answered a Transfer, and both are in the result, in order.
C2_Witness ==
    /\ pc = "returned"
    /\ Len(replies) = 3
    /\ replies[1].ok /\ ~replies[2].ok /\ replies[3].ok
    /\ Len(logs.transfer) = 2
    /\ logs.transfer[1].block = queried[1][1]
    /\ logs.transfer[2].block = queried[3][1]

Count(seq, e) == Cardinality({i \in 1..Len(seq) : seq[i] = e})

\* C3: in the returned mapping, whose keys are the three kinds and no other,
\* a log whose first topic is one of the three signatures is held exactly
\* once, under the kind of that signature and under no other kind, and a log
\* whose first topic is none of the three is held nowhere.
C3_ClassificationExclusive ==
    pc = "returned" =>
       /\ DOMAIN logs = {"transfer", "blacklisted", "upgraded"}
       /\ \A i \in 1..Len(Received) :
             LET l == Received[i]
                 e == Entry(l)
                 n == [kind \in DOMAIN logs |-> Count(logs[kind], e)]
             IN /\ FirstTopicIs(l, TRANSFER_TOPIC) =>
                      n = [transfer |-> 1, blacklisted |-> 0, upgraded |-> 0]
                /\ FirstTopicIs(l, BLACKLISTED_TOPIC) =>
                      n = [transfer |-> 0, blacklisted |-> 1, upgraded |-> 0]
                /\ FirstTopicIs(l, UPGR_TOPIC) =>
                      n = [transfer |-> 0, blacklisted |-> 0, upgraded |-> 1]
                /\ ~(\E t \in {TRANSFER_TOPIC, BLACKLISTED_TOPIC, UPGR_TOPIC} :
                        FirstTopicIs(l, t)) =>
                      n = [transfer |-> 0, blacklisted |-> 0, upgraded |-> 0]
       /\ \A kind \in DOMAIN logs : \A j \in 1..Len(logs[kind]) :
             \E i \in 1..Len(Received) : Entry(Received[i]) = logs[kind][j]

\* A scan returned after an answer that held an Upgraded log and a log of an
\* unrecognised event carrying the Transfer signature as its second topic.
C3_Witness ==
    /\ pc = "returned"
    /\ \E i, j \in 1..Len(Received) :
          /\ FirstTopicIs(Received[i], UPGR_TOPIC)
          /\ FirstTopicIs(Received[j], OWNERSHIP_TX_TOPIC)
    /\ Len(logs.upgraded) = 1
    /\ logs.transfer = <<>>

\* -------------------------------------------- properties of expand_sources

Payload == item[1].SourceCode
Trimmed == Strip(Payload)
DoubleWrapped == StartsWith(Trimmed, <<"{", "{">>) /\ EndsWith(Trimmed, <<"}", "}">>)
\* The payload without one layer of braces.
SingleWrapped == SubSeq(Trimmed, 2, Len(Trimmed) - 1)

\* The number of brace layers around the trimmed payload.
RECURSIVE Layers(_)
Layers(t) ==
    IF Len(t) >= 2 /\ t[1] = "{" /\ t[Len(t)] = "}"
    THEN 1 + Layers(SubSeq(t, 2, Len(t) - 1)) ELSE 0

\* The name hint, trimmed, or Contract when it is absent or blank.
HintOrContract ==
    LET h == item[1].ContractName IN
    IF h = None \/ Strip(h[1]) = <<>> THEN <<"Contract">> ELSE Strip(h[1])

SingleUnit == << <<HintOrContract \o <<".sol">>, Payload>> >>

UnitSet(us) == {us[k] : k \in 1..Len(us)}

\* C7: expand_sources unwraps at most one brace layer.  (a) A payload that
\* does not parse, is wrapped in "{{" "}}" and, one layer stripped, parses to
\* an object with a sources key expands to the units its single-wrapped form
\* expands to, the files of that object.  (b) A payload for which both
\* attempts fail (three or more brace layers among them), or whose parse
\* result has no sources key, expands to the one unit <hint or Contract>.sol
\* holding the payload verbatim.  (c) An empty payload expands to no unit.
C7_UnwrapOneLayer ==
    pc = "expanded" =>
       LET direct == JsonLoads(Payload)
           retry == IF DoubleWrapped /\ SingleWrapped # <<>>
                    THEN JsonLoads(SingleWrapped) ELSE JsonError
           parsed == IF direct.ok THEN direct ELSE retry
       IN /\ Payload = <<>> => sources = <<>>
          /\ (Payload # <<>> /\ ~direct.ok /\ retry.ok /\ retry.has_sources) =>
                /\ UnitSet(sources) =
                      UnitSet(ExpandSources(Item(SingleWrapped, item[1].ContractName)))
                /\ UnitSet(sources) =
                      {<<f[1], IF f[2] = None THEN <<>> ELSE f[2][1]>> :
                          f \in UnitSet(retry.sources)}
          /\ (Payload # <<>> /\ (~parsed.ok \/ ~parsed.has_sources)) =>
                sources = SingleUnit
          /\ (Payload # <<>> /\ Layers(Trimmed) >= 3) =>
                ~parsed.ok /\ sources = SingleUnit

\* A payload " {{ "sources": ... }}" with whitespace around it was expanded
\* to the two files of its project.
C7_Witness ==
    /\ pc = "expanded"
    /\ Payload # Trimmed
    /\ ~JsonLoads(Payload).ok
    /\ Layers(Trimmed) = 2
    /\ UnitSet(sources) = {<<"A.sol", ContentA>>, <<"B.sol", ContentB>>}

\* --------------------------------------------- properties of grep_patterns

\* The line numbers a list of findings reports.
Reported(fs) == {fs[k][1] : k \in 1..Len(fs)}

\* onlyOwner occurs nowhere in lines i..min(i + 3, lastLine).
WindowUnguarded(lines, i) ==
    \A k \in i..Min(i + 3, Len(lines)) : ~Contains(lines[k], "onlyOwner")

\* C5: a line is in init_functions exactly when it matches an init pattern,
\* and an init line is in unprotected_inits exactly when onlyOwner occurs
\* nowhere in it and the next three lines (fewer at the end of the text); a
\* line that is not in init_functions is never in unprotected_inits.
C5_UnprotectedInits ==
    pc = "scanned" =>
       LET lines == SplitLines(concat)
           inits == Reported(findings.init_functions)
           unprotected == Reported(findings.unprotected_inits)
       IN /\ \A i \in 1..Len(lines) :
                /\ i \in inits <=> IsInit(lines[i])
                /\ IsInit(lines[i]) =>
                      (i \in unprotected <=> WindowUnguarded(lines, i))
                /\ (IsInit(lines[i]) /\ i < Len(lines)
                       /\ Contains(lines[i + 1], "onlyOwner")) =>
                      i \notin unprotected
          /\ unprotected \subseteq inits
          /\ inits \subseteq 1..Len(lines)

\* A text of five lines was scanned: the init of line 1 has no guard in lines
\* 1..4 and is in both categories, the init of line 4 is followed by the
\* guard and is in init_functions only.
C5_Witness ==
    /\ pc = "scanned"
    /\ Len(SplitLines(concat)) = 5
    /\ Reported(findings.init_functions) = {1, 4}
    /\ Reported(findings.unprotected_inits) = {1}
    /\ Contains(SplitLines(concat)[5], "onlyOwner")

\* C6: for each of the five setter names, a line with a call-shaped name( is
\* in unprotected_role_setters exactly when onlyOwner is absent from the
\* four-line window that starts at it: a guard on the 4th line of the window
\* suppresses the finding, a guard that first appears on the 5th line does
\* not; and no other line is reported.
C6_UnprotectedRoleSetters ==
    pc = "scanned" =>
       LET lines == SplitLines(concat)
           found == Reported(findings.unprotected_role_setters)
       IN /\ \A k \in 1..Len(ROLE_SETTERS) : \A i \in 1..Len(lines) :
                CallShaped(lines[i], ROLE_SETTERS[k]) =>
                   /\ i \in found <=> WindowUnguarded(lines, i)
                   /\ (i + 3 <= Len(lines) /\ Contains(lines[i + 3], "onlyOwner")) =>
                         i \notin found
                   /\ (i + 4 <= Len(lines) /\ Contains(lines[i + 4], "onlyOwner")
                          /\ \A j \in i..(i + 3) : ~Contains(lines[j], "onlyOwner")) =>
                         i \in found
          /\ \A i \in found :
                /\ i \in 1..Len(lines)
                /\ \E k \in 1..Len(ROLE_SETTERS) : CallShaped(lines[i], ROLE_SETTERS[k])

\* A text of five lines was scanned: updateRescuer( is called on lines 1 and
\* 2 and the guard is on line 5 only, the 5th line after line 1 and the 4th
\* of the window of line 2; line 1 is reported and line 2 is not.
C6_Witness ==
    /\ pc = "scanned"
    /\ LET lines == SplitLines(concat)
       IN /\ Len(lines) = 5
          /\ CallShaped(lines[1], "updateRescuer")
          /\ CallShaped(lines[2], "updateRescuer")
          /\ \A j \in 1..4 : ~Contains(lines[j], "onlyOwner")
          /\ Contains(lines[5], "onlyOwner")
    /\ Reported(findings.unprotected_role_setters) = {1}

\* ------------------------------------------------------ properties of main

Terminal == {"done", "exited", "aborted"}

\* No window was queried twice.
NoWindowRepeated == \A j, k \in 1..Len(queried) : j < k => queried[j] # queried[k]

SlotReadFailed == slot # None /\ ~slot[1].ok
WindowFailed == \E k \in 1..Len(replies) : ~replies[k].ok

C9_NoKeyNoNetwork ==
    api_key = None =>
       /\ pc \in {"main", "exited"}
       /\ calls = NoCalls
       /\ queried = <<>>
       /\ report = None /\ latest = None /\ slot = None /\ item = None

\* A run without the credential has exited.
C9_Witness == api_key = None /\ pc = "exited" /\ raised = "SystemExit"

\* C4 (the claim as stated; the code violates it): an implementation is
\* present only when the slot read succeeded with exactly 32 bytes whose
\* low-order 20 are not all zero; otherwise the source is fetched for the
\* original address, never for the zero address, and the report carries no
\* implementation.
C4_ZeroWordIsNoProxy ==
    LET plausible == /\ slot # None /\ slot[1].ok /\ Len(slot[1].raw) = 32
                     /\ LowOrder20(slot[1].raw) # ZERO_ADDRESS
    IN /\ impl # None => plausible
       /\ target # None => target[1] # ZERO_ADDRESS
       /\ (target # None /\ ~plausible) => target[1] = ADDRESS
       /\ (report # None /\ ~plausible) => report[1].implementation = None

\* C10 (the claim as stated; the code violates it): an explicit --from-block
\* or --to-block, 0 included, is the bound the scan uses, and the defaults
\* max(0, latest - 200000) and latest stand in for an absent bound only; a
\* run with --from-block 0 queries windows that start at block 0.
C10_ExplicitBoundsUsed ==
    latest # None =>
       /\ from_block = (IF args_from # None THEN args_from[1]
                        ELSE Max(0, latest[1] - LOOKBACK))
       /\ to_block = (IF args_to # None THEN args_to[1] ELSE latest[1])
       /\ (args_from = Some(0) /\ queried # <<>>) => queried[1][1] = 0

====
